---- MODULE Spec2Model ----
(***************************************************************************)
(* Model of iemgmm.py: the Gaussian-mixture EM engine with imputation.     *)
(*                                                                         *)
(*   Spec      run_EM, the restart-on-singularity driver, with I and draw  *)
(*             executed inside it (control flow, dataset, restarts).       *)
(*   SpecDraw  draw as called directly, for every size and both settings   *)
(*             of the selection callback.                                  *)
(*   SpecEM    the arithmetic of E and M on bounded inputs.                *)
(*                                                                         *)
(* Dimension D is 1 throughout: mean[j] and covar[j] are scalars, a data   *)
(* row is one number.  Real numbers are exact rationals <<n, d>>, d > 0,   *)
(* in lowest terms.  Quantities the code keeps as logarithms (qij) are     *)
(* kept here as their exponentials, so that "subtract a log" is "divide".  *)
(***************************************************************************)
EXTENDS Integers, Sequences, FiniteSets, TLC

VARIABLES
    pc,          \* position in run_EM / draw / the E-M harness
    iter,        \* run_EM: the iteration counter
    impute,      \* run_EM, M: number of imputed rows
    hasSel,      \* sel_callback is not None
    invert,      \* draw: invert_callback
    data,        \* the caller's dataset
    data_out,    \* run_EM: rows returned by I
    data_,       \* run_EM: data concatenated with data_out
    amp, mean, covar,   \* the caller's parameter arrays
    qij,         \* result of E
    stack,       \* draw: the activation records of the recursion
    ret,         \* draw: value returned by the outermost call
    calls,       \* history: the functions called in the current step
    fed,         \* history: the rows passed to E (and M) in the current step
    fresh,       \* history: data_out was assigned in the current step
    steps,       \* history: counters of the steps completed since initialize
    restarts,    \* history: LinAlgErrors handled so far (saturating)
    entry        \* history: the parameters as they were when draw / M was entered

vars == <<pc, iter, impute, hasSel, invert, data, data_out, data_, amp, mean,
          covar, qij, stack, ret, calls, fed, fresh, steps, restarts, entry>>

----------------------------------------------------------------------------
(* Bounds of the model *)
K == 2              \* number of mixture components
NRows == 2          \* rows of the caller's dataset
MaxImpute == 1      \* largest impute count tried by run_EM
MaxSize == 3        \* largest size requested from draw directly
MaxDepth == 3       \* deepest recursion of draw explored
MaxRestarts == 1    \* the restart counter saturates here
MaxDenominator == 13    \* largest denominator of a responsibility passed to M

(* Program constants *)
NIter == 50         \* while iter < 50
Switch == 25        \* iter < 25

----------------------------------------------------------------------------
(* Exact rational arithmetic *)
Abs(x) == IF x < 0 THEN -x ELSE x

RECURSIVE GCD(_, _)
GCD(a, b) == IF b = 0 THEN a ELSE GCD(b, a % b)

Rat(n, d) ==
    LET g == GCD(Abs(n), Abs(d))
        s == IF d < 0 THEN -1 ELSE 1
    IN  <<(s * n) \div g, (s * d) \div g>>

Zero == <<0, 1>>
One == <<1, 1>>
LCM(a, b) == (a \div GCD(a, b)) * b
RAdd(a, b) ==
    LET l == LCM(a[2], b[2])
    IN  Rat(a[1] * (l \div a[2]) + b[1] * (l \div b[2]), l)
RNeg(a) == <<-a[1], a[2]>>
RSub(a, b) == RAdd(a, RNeg(b))
RMul(a, b) ==
    LET g == GCD(Abs(a[1]), b[2])
        h == GCD(Abs(b[1]), a[2])
    IN  Rat((a[1] \div g) * (b[1] \div h), (a[2] \div h) * (b[2] \div g))
RDiv(a, b) == RMul(a, Rat(b[2], b[1]))
FromInt(n) == <<n, 1>>

Range(s) == {s[k] : k \in DOMAIN s}

RECURSIVE SumSeq(_)
SumSeq(s) == IF s = <<>> THEN Zero ELSE RAdd(s[1], SumSeq(Tail(s)))

----------------------------------------------------------------------------
(* Parameter arrays: K-vectors of rationals *)
Comps == 1..K
Vec(f(_)) == [j \in Comps |-> f(j)]

\* target_size = 0.1
TargetSize == <<1, 10>>

UniformAmp(j) == Rat(1, K)
SkewedAmp(j) == FromInt(j)
FixedCovar(j) == RMul(TargetSize, TargetSize)
CollapsedCovar(j) == IF j = 1 THEN Zero ELSE FixedCovar(j)
OriginMean(j) == Zero
SpreadMean(j) == Rat(j - 1, K)

\* values np.random.random(size=(K, D)) may produce, all in [0, 1)
RandomMeans == {Vec(OriginMean), Vec(SpreadMean)}

\* values the parameter arrays may hold on entry and after an update;
\* amp need not sum to 1 and covar[1] may have collapsed to a singular matrix
AmpValues == {Vec(UniformAmp), Vec(SkewedAmp)}
MeanValues == RandomMeans
CovarValues == {Vec(FixedCovar), Vec(CollapsedCovar)}

\* what M may leave in the arrays, as far as run_EM is concerned: a regular
\* update (amp not summing to 1) or one whose first covariance is singular
Updates ==
    {[amp |-> Vec(SkewedAmp), mean |-> Vec(SpreadMean), covar |-> Vec(FixedCovar)],
     [amp |-> Vec(UniformAmp), mean |-> Vec(OriginMean), covar |-> Vec(CollapsedCovar)]}

Params(a, m, c, n) == [amp |-> a, mean |-> m, covar |-> c, size |-> n]

----------------------------------------------------------------------------
(* draw *)

\* values np.random.multivariate_normal may return: one outside and one
\* inside the region the selection callback accepts
SampleValues == {0, 1}

\* sel_callback applied to one sample
Selected(x) == x >= 1

\* amp /= amp.sum(), on the caller's array
Normalise(a) == [j \in DOMAIN a |-> RDiv(a[j], SumSeq(a))]

\* bc = np.bincount(ind); mask.sum() for component c
Bincount(ind, c) == Cardinality({k \in DOMAIN ind : ind[k] = c})

\* components = np.arange(ind.size)[bc > 0]
Components(ind) == {c \in Comps : Bincount(ind, c) > 0}

RECURSIVE SumCounts(_, _)
SumCounts(ind, cs) ==
    IF cs = {} THEN 0
    ELSE LET c == CHOOSE x \in cs : TRUE
         IN  Bincount(ind, c) + SumCounts(ind, cs \ {c})

\* counter after the sampling loops: the number of slots of samples filled
Counter(ind) ==
    IF Len(ind) > K THEN SumCounts(ind, Components(ind)) ELSE Len(ind)

\* samples after the sampling loops: slot k holds the k-th value generated;
\* slots at and beyond counter keep what np.empty left there
Fill(ind, normal, garbage) ==
    [k \in 1..Len(ind) |->
        IF k <= Counter(ind) THEN normal[k] ELSE garbage[k - Counter(ind)]]

\* sel_ = sel_callback(samples); if invert_callback: sel_ = np.invert(sel_)
Mask(samples, inv) ==
    [k \in DOMAIN samples |->
        IF inv THEN ~Selected(samples[k]) ELSE Selected(samples[k])]

\* size_in = sel_.sum()
SizeIn(sel_) == Cardinality({k \in DOMAIN sel_ : sel_[k]})

\* samples[sel_]
RECURSIVE Compress(_, _)
Compress(samples, sel_) ==
    IF samples = <<>> THEN <<>>
    ELSE (IF sel_[1] THEN <<samples[1]>> ELSE <<>>)
         \o Compress(Tail(samples), Tail(sel_))

\* variant of TopUp: the whole batch is kept, not only samples[sel_]
TopUp_KeepAll(samples, sel_, ssamples) == samples \o ssamples

\* np.concatenate((samples[sel_], ssamples))
TopUp(samples, sel_, ssamples) == Compress(samples, sel_) \o ssamples

Frame(n, s, m, st) == [size |-> n, samples |-> s, sel_ |-> m, status |-> st]
Called(n) == Frame(n, <<>>, <<>>, "entry")
Top == stack[Len(stack)]
Below == SubSeq(stack, 1, Len(stack) - 1)

\* variant of Deficit: the top-up call asks for the full size again
Deficit_FullSize(size, sel_) == size

\* size=size-size_in: the size of the recursive call
Deficit(size, sel_) == size - SizeIn(sel_)

\* lines 6-33: the body of one activation, up to its return or its
\* recursive call
DrawBody ==
    /\ pc = "draw"
    /\ stack # <<>>
    /\ Top.status = "entry"
    /\ amp' = Normalise(amp)
    /\ \E ind \in [1..Top.size -> Comps], normal \in [1..Top.size -> SampleValues] :
         \E garbage \in [1..(Top.size - Counter(ind)) -> SampleValues] :
           LET samples == Fill(ind, normal, garbage)
               sel_ == Mask(samples, invert)
           IN  IF hasSel /\ SizeIn(sel_) # Top.size
               THEN /\ Len(stack) < MaxDepth
                    /\ stack' = Below \o <<Frame(Top.size, samples, sel_, "call"),
                                            Called(Deficit(Top.size, sel_))>>
               ELSE stack' = Below \o
                        <<Frame(Top.size, samples, IF hasSel THEN sel_ ELSE <<>>, "return")>>
    /\ UNCHANGED <<pc, iter, impute, hasSel, invert, data, data_out, data_, mean,
                   covar, qij, ret, calls, fed, fresh, steps, restarts, entry>>

\* lines 33-35: an activation returns; its caller concatenates and returns
DrawReturn ==
    /\ pc = "draw"
    /\ stack # <<>>
    /\ Top.status = "return"
    /\ IF Len(stack) = 1
       THEN /\ ret' = Top.samples
            /\ stack' = <<>>
            /\ pc' = "returned"
       ELSE LET caller == stack[Len(stack) - 1]
            IN  /\ stack' = SubSeq(stack, 1, Len(stack) - 2) \o
                      <<Frame(caller.size,
                              TopUp(caller.samples, caller.sel_, Top.samples),
                              caller.sel_, "return")>>
                /\ UNCHANGED <<ret, pc>>
    /\ UNCHANGED <<iter, impute, hasSel, invert, data, data_out, data_, amp, mean,
                   covar, qij, calls, fed, fresh, steps, restarts, entry>>

\* draw called directly: any size, with or without a callback, either polarity
AmpInputs == AmpValues
Sizes == 0..MaxSize

InitDraw ==
    /\ pc = "draw"
    /\ iter = 0
    /\ impute = 0
    /\ hasSel \in BOOLEAN
    /\ invert \in BOOLEAN
    /\ data = <<>>
    /\ data_out = <<>>
    /\ data_ = <<>>
    /\ amp \in AmpInputs
    /\ mean \in MeanValues
    /\ covar = Vec(FixedCovar)
    /\ qij = <<>>
    /\ \E n \in Sizes :
         /\ stack = <<Called(n)>>
         /\ entry = Params(amp, mean, covar, n)
    /\ ret = <<>>
    /\ calls = <<>>
    /\ fed = <<>>
    /\ fresh = FALSE
    /\ steps = <<>>
    /\ restarts = 0

NextDraw == DrawBody \/ DrawReturn

SpecDraw == InitDraw /\ [][NextDraw]_vars

----------------------------------------------------------------------------
(* run_EM *)

\* initialize(amp, mean, covar); random is what np.random.random returned
initialize(random) ==
    [amp |-> Vec(UniformAmp), mean |-> random, covar |-> Vec(FixedCovar)]

\* while iter < 50
LoopCond(c) == c < NIter

\* variant of PlainCond: the switch-over test written iter <= 25
PlainCond_OffByOne(imp, c) == imp = 0 \/ c <= Switch \/ c % 2 = 0

\* if impute == 0 or iter < 25 or iter % 2 == 0
PlainCond(imp, c) == imp = 0 \/ c < Switch \/ c % 2 = 0

\* np.linalg.inv(covar[j]) raises LinAlgError on a singular matrix
Singular(c) == \E j \in Comps : c[j] = Zero

\* variant of Concatenate: the rows are appended to data itself
Concatenate_InPlace(d, out) == [data |-> d \o out, data_ |-> d \o out]

\* data_ = np.concatenate((data, data_out), axis=0): a new array
Concatenate(d, out) == [data |-> d, data_ |-> d \o out]

\* iter += 1
Increment(c) == c + 1

\* the datasets run_EM is called with: rows the selection accepts
ConstantRow(i) == 1
AlternatingRow(i) == 1 + (i % 2)
DataSets == {[i \in 1..NRows |-> ConstantRow(i)], [i \in 1..NRows |-> AlternatingRow(i)]}

\* run_test passes impute > 0 together with a selection callback
ImputeValues == {0, MaxImpute}

Init ==
    /\ pc = "initialize"
    /\ iter = 0
    /\ impute \in ImputeValues
    /\ hasSel = (impute > 0)
    /\ invert = TRUE
    /\ data \in DataSets
    /\ data_out = <<>>
    /\ data_ = <<>>
    /\ \E held \in Updates :
         /\ amp = held.amp
         /\ mean = held.mean
         /\ covar = held.covar
    /\ qij = <<>>
    /\ stack = <<>>
    /\ ret = <<>>
    /\ calls = <<>>
    /\ fed = <<>>
    /\ fresh = FALSE
    /\ steps = <<>>
    /\ restarts = 0
    /\ entry = Params(amp, mean, covar, 0)

\* lines 116-118
Initialize ==
    /\ pc = "initialize"
    /\ \E random \in RandomMeans :
         /\ amp' = initialize(random).amp
         /\ mean' = initialize(random).mean
         /\ covar' = initialize(random).covar
    /\ iter' = 0
    /\ steps' = <<>>
    /\ pc' = "while"
    /\ UNCHANGED <<impute, hasSel, invert, data, data_out, data_, qij, stack, ret,
                   calls, fed, fresh, restarts, entry>>

\* lines 119-121, loop entered: choose the branch of the step
While ==
    /\ pc = "while"
    /\ LoopCond(iter)
    /\ pc' = IF PlainCond(impute, iter) THEN "E" ELSE "I"
    /\ calls' = <<>>
    /\ fresh' = FALSE
    /\ UNCHANGED <<iter, impute, hasSel, invert, data, data_out, data_, amp, mean,
                   covar, qij, stack, ret, fed, steps, restarts, entry>>

\* line 119, loop left: run_EM returns
Return ==
    /\ pc = "while"
    /\ ~LoopCond(iter)
    /\ pc' = "done"
    /\ UNCHANGED <<iter, impute, hasSel, invert, data, data_out, data_, amp, mean,
                   covar, qij, stack, ret, calls, fed, fresh, steps, restarts, entry>>

\* a call of E on rows: LinAlgError when a covariance is singular.  The
\* driver does not track qij; SpecEM models the arithmetic of E.
RunE(rows, name, next) ==
    /\ fed' = rows
    /\ calls' = Append(calls, name)
    /\ pc' = IF Singular(covar) THEN "except" ELSE next
    /\ UNCHANGED <<iter, impute, hasSel, invert, data, data_out, data_, amp, mean,
                   covar, qij, stack, ret, fresh, steps, restarts, entry>>

\* a call of M on rows: amp, mean and covar are overwritten in place.  The
\* driver takes the new values from Updates; SpecEM models the arithmetic
\* of M.
RunM(rows, name) ==
    /\ fed' = rows
    /\ calls' = Append(calls, name)
    /\ \E new \in Updates :
         /\ amp' = new.amp
         /\ mean' = new.mean
         /\ covar' = new.covar
    /\ steps' = Append(steps, iter)
    /\ pc' = "incr"
    /\ UNCHANGED <<iter, impute, hasSel, invert, data, data_out, data_, qij, stack,
                   ret, fresh, restarts, entry>>

\* line 122
CallE == pc = "E" /\ RunE(data, "E", "M")

\* line 123
CallM == pc = "M" /\ RunM(data, "M")

\* lines 125, 102-103: I calls draw with size=impute, invert_callback=True
CallI ==
    /\ pc = "I"
    /\ calls' = Append(calls, "I")
    /\ invert' = TRUE
    /\ stack' = <<Called(impute)>>
    /\ entry' = Params(amp, mean, covar, impute)
    /\ pc' = "draw"
    /\ UNCHANGED <<iter, impute, hasSel, data, data_out, data_, amp, mean, covar,
                   qij, ret, fed, fresh, steps, restarts>>

\* line 125: data_out = the value I returned
AssignOut ==
    /\ pc = "returned"
    /\ data_out' = ret
    /\ fresh' = TRUE
    /\ pc' = "concat"
    /\ UNCHANGED <<iter, impute, hasSel, invert, data, data_, amp, mean, covar, qij,
                   stack, ret, calls, fed, steps, restarts, entry>>

\* line 126
Concat ==
    /\ pc = "concat"
    /\ data' = Concatenate(data, data_out).data
    /\ data_' = Concatenate(data, data_out).data_
    /\ calls' = Append(calls, "concatenate")
    /\ pc' = "E_"
    /\ UNCHANGED <<iter, impute, hasSel, invert, data_out, amp, mean, covar, qij,
                   stack, ret, fed, fresh, steps, restarts, entry>>

\* line 128
CallE_ == pc = "E_" /\ RunE(data_, "E", "M_")

\* line 129
CallM_ == pc = "M_" /\ RunM(data_, "M_impute")

\* variant of Except: the handler gives up and run_EM ends with the error
Except_GiveUp ==
    /\ pc = "except"
    /\ pc' = "done"
    /\ UNCHANGED <<iter, impute, hasSel, invert, data, data_out, data_, amp, mean,
                   covar, qij, stack, ret, calls, fed, fresh, steps, restarts, entry>>

\* lines 130-132: the handler sets iter = 0 and initializes again
Except ==
    /\ pc = "except"
    /\ iter' = 0
    /\ \E random \in RandomMeans :
         /\ amp' = initialize(random).amp
         /\ mean' = initialize(random).mean
         /\ covar' = initialize(random).covar
    /\ steps' = <<>>
    /\ calls' = Append(calls, "initialize")
    /\ restarts' = IF restarts < MaxRestarts THEN restarts + 1 ELSE restarts
    /\ pc' = "incr"
    /\ UNCHANGED <<impute, hasSel, invert, data, data_out, data_, qij, stack, ret,
                   fed, fresh, entry>>

\* line 133, reached after a completed step and after the handler alike
Incr ==
    /\ pc = "incr"
    /\ iter' = Increment(iter)
    /\ pc' = "while"
    /\ UNCHANGED <<impute, hasSel, invert, data, data_out, data_, amp, mean, covar,
                   qij, stack, ret, calls, fed, fresh, steps, restarts, entry>>

Next ==
    \/ Initialize
    \/ While
    \/ Return
    \/ CallE
    \/ CallM
    \/ CallI
    \/ DrawBody
    \/ DrawReturn
    \/ AssignOut
    \/ Concat
    \/ CallE_
    \/ CallM_
    \/ Except
    \/ Incr

Spec == Init /\ [][Next]_vars

----------------------------------------------------------------------------
(* logsumLogL, E and M *)

\* values the Gaussian density of a row under a component may take; the
\* density itself, exp(-chi2/2) / sqrt((2 pi)^D det covar), is not rational
DensValues == {One, Rat(1, 2)}

\* the numbers that occur as rows: dataset rows and imputed rows
RowValues == SampleValues \cup UNION {Range(d) : d \in DataSets}

\* the rows I may return: samples the selection callback rejects
ImputedRows(n) == [1..n -> {x \in SampleValues : ~Selected(x)}]

Transpose(m) ==
    IF m = <<>> THEN <<>>
    ELSE [c \in DOMAIN m[1] |-> [r \in DOMAIN m |-> m[r][c]]]

\* logsumLogL(ll): log(sum over axis 0 of exp(ll + c)) - c, which is the log
\* of the column sums; held as the column sums themselves
logsumLogL(ll) ==
    [c \in DOMAIN ll[1] |-> SumSeq([r \in DOMAIN ll |-> ll[r][c]])]

\* lines 64-67: qij[:,j] = log(amp[j]) - log((2 pi)^D det covar[j])/2 - chi2/2
Unnormalized(rows, a, dens) ==
    [i \in DOMAIN rows |-> [j \in Comps |-> RMul(a[j], dens[<<rows[i], j>>])]]

\* line 69 for one j: qij[:,j] -= logsumLogL(qij.T), on qij as it is now
NormalizeColumn(q, j) ==
    LET norm == logsumLogL(Transpose(q))
    IN  [i \in DOMAIN q |-> [q[i] EXCEPT ![j] = RDiv(q[i][j], norm[i])]]

\* lines 68-69: for j in xrange(K)
RECURSIVE NormalizeFrom(_, _)
NormalizeFrom(q, j) ==
    IF j > K THEN q ELSE NormalizeFrom(NormalizeColumn(q, j), j + 1)

E(rows, a, dens) == NormalizeFrom(Unnormalized(rows, a, dens), 1)

Sq(x) == RMul(x, x)

\* the outer-product sum over the N real rows about centre
Scatter(rows, q, j, N, centre) ==
    SumSeq([i \in 1..N |-> RMul(q[i][j], Sq(RSub(FromInt(rows[i]), centre)))])

\* (data[:,d] * Q_i).sum() over all rows
Moment(rows, q, j) ==
    SumSeq([i \in DOMAIN rows |-> RMul(FromInt(rows[i]), q[i][j])])

\* variant of MComponent: the mean is updated first and the covariance is
\* taken about the new mean
MComponent_MeanFirst(rows, q, a, m, c, imp, j) ==
    LET N == Len(rows) - imp
        qj == logsumLogL(q)
        qj_in == logsumLogL(SubSeq(q, 1, N))
        qj_out == logsumLogL(SubSeq(q, N + 1, Len(rows)))
        newmean == RDiv(Moment(rows, q, j), qj[j])
        covar_ == c[j]
        sum == Scatter(rows, q, j, N, newmean)
    IN  [amp |-> RDiv(qj[j], FromInt(N + imp)),
         covar |-> IF imp = 0
                   THEN RDiv(sum, qj[j])
                   ELSE RAdd(RDiv(sum, qj_in[j]),
                             RMul(RDiv(qj_out[j], qj[j]), covar_)),
         mean |-> newmean]

\* lines 75-79 and the body of the loop over j, lines 83-100
MComponent(rows, q, a, m, c, imp, j) ==
    LET N == Len(rows) - imp
        qj == logsumLogL(q)
        qj_in == logsumLogL(SubSeq(q, 1, N))
        qj_out == logsumLogL(SubSeq(q, N + 1, Len(rows)))
        covar_ == c[j]
        sum == Scatter(rows, q, j, N, m[j])
    IN  [amp |-> RDiv(qj[j], FromInt(N + imp)),
         covar |-> IF imp = 0
                   THEN RDiv(sum, qj[j])
                   ELSE RAdd(RDiv(sum, qj_in[j]),
                             RMul(RDiv(qj_out[j], qj[j]), covar_)),
         mean |-> RDiv(Moment(rows, q, j), qj[j])]

\* M(data, qij, amp, mean, covar, impute): the arrays after the call
M(rows, q, a, m, c, imp) ==
    [amp |-> [j \in Comps |-> MComponent(rows, q, a, m, c, imp, j).amp],
     mean |-> [j \in Comps |-> MComponent(rows, q, a, m, c, imp, j).mean],
     covar |-> [j \in Comps |-> MComponent(rows, q, a, m, c, imp, j).covar]]

\* the responsibilities the model follows into M: those whose denominators
\* keep the exact arithmetic of M within the integers of the model
Representable(q) ==
    \A i \in DOMAIN q : \A j \in Comps : q[i][j][2] <= MaxDenominator

\* mixture weights E is entered with: positive and summing to 1
MixtureWeights == {Vec(UniformAmp), Normalise(Vec(SkewedAmp))}

\* the rows one step of run_EM passes to E and M
StepRows == IF impute = 0 THEN data ELSE data_

\* one step of run_EM on bounded inputs, after I and the concatenation
InitEM ==
    /\ pc = "E"
    /\ iter = 0
    /\ impute \in ImputeValues
    /\ hasSel = (impute > 0)
    /\ invert = TRUE
    /\ data \in DataSets
    /\ data_out \in ImputedRows(impute)
    /\ data_ = IF impute = 0 THEN <<>> ELSE data \o data_out
    /\ amp \in MixtureWeights
    /\ mean \in MeanValues
    /\ covar \in CovarValues
    /\ qij = <<>>
    /\ stack = <<>>
    /\ ret = <<>>
    /\ calls = <<>>
    /\ fed = <<>>
    /\ fresh = (impute > 0)
    /\ steps = <<>>
    /\ restarts = 0
    /\ entry = Params(amp, mean, covar, 0)

\* lines 122 / 128: qij = E(...)
ApplyE ==
    /\ pc = "E"
    /\ ~Singular(covar)
    /\ \E dens \in [RowValues \X Comps -> DensValues] :
         /\ Representable(E(StepRows, amp, dens))
         /\ qij' = E(StepRows, amp, dens)
    /\ fed' = StepRows
    /\ calls' = Append(calls, "E")
    /\ pc' = "M"
    /\ UNCHANGED <<iter, impute, hasSel, invert, data, data_out, data_, amp, mean,
                   covar, stack, ret, fresh, steps, restarts, entry>>

\* lines 122 / 128: np.linalg.inv raises LinAlgError
RaiseE ==
    /\ pc = "E"
    /\ Singular(covar)
    /\ fed' = StepRows
    /\ calls' = Append(calls, "E")
    /\ pc' = "except"
    /\ UNCHANGED <<iter, impute, hasSel, invert, data, data_out, data_, amp, mean,
                   covar, qij, stack, ret, fresh, steps, restarts, entry>>

\* lines 123 / 129: M(..., impute)
ApplyM ==
    /\ pc = "M"
    /\ entry' = Params(amp, mean, covar, 0)
    /\ amp' = M(StepRows, qij, amp, mean, covar, impute).amp
    /\ mean' = M(StepRows, qij, amp, mean, covar, impute).mean
    /\ covar' = M(StepRows, qij, amp, mean, covar, impute).covar
    /\ fed' = StepRows
    /\ calls' = Append(calls, IF impute = 0 THEN "M" ELSE "M_impute")
    /\ steps' = Append(steps, iter)
    /\ pc' = "incr"
    /\ UNCHANGED <<iter, impute, hasSel, invert, data, data_out, data_, qij, stack,
                   ret, fresh, restarts>>

NextEM == ApplyE \/ RaiseE \/ ApplyM

SpecEM == InitEM /\ [][NextEM]_vars

----------------------------------------------------------------------------
(* Properties of run_EM *)

Last(s) == s[Len(s)]
Counters(from, n) == [k \in 1..n |-> from + k - 1]
InPlainStep == pc \in {"E", "M"}
InImputeStep == pc \in {"I", "draw", "returned", "concat", "E_", "M_"}
StepCompleted == pc = "incr" /\ calls # <<>> /\ Last(calls) \in {"M", "M_impute"}

\* C1: the counter at the start of a step decides its kind: plain {E, M} on
\* data when impute = 0 or c < 25 or c is even, otherwise {I, concatenate,
\* E, M with impute}; a run without failure executes exactly the 50 steps
\* at counters 0..49 in order; with impute = 0 no step calls I.
C1_StepKinds ==
    /\ InPlainStep => (impute = 0 \/ iter < 25 \/ iter % 2 = 0)
    /\ InImputeStep => (impute > 0 /\ iter >= 25 /\ iter % 2 = 1)
    /\ StepCompleted =>
         calls = IF impute = 0 \/ iter < 25 \/ iter % 2 = 0
                 THEN <<"E", "M">>
                 ELSE <<"I", "concatenate", "E", "M_impute">>
    /\ (pc = "done" /\ restarts = 0) => steps = Counters(0, 50)
    /\ impute = 0 => "I" \notin Range(calls)

\* a run with imputation steps that returned without any failure
C1_Witness == pc = "done" /\ restarts = 0 /\ impute > 0 /\ Len(steps) = 50

\* C2 (as claimed): after a LinAlgError the run continues as a fresh run: the
\* first step after the restart executes with counter 0, and 50 steps are
\* completed after the most recent initialize before run_EM returns.
C2_RestartIsFreshRun ==
    /\ ((InPlainStep \/ InImputeStep) /\ steps = <<>>) => iter = 0
    /\ pc = "done" => steps = Counters(0, 50)

\* steps draw still needs in the worst case, from the state of its stack
DrawRank ==
    IF stack = <<>> THEN 0
    ELSE IF Top.status = "entry" THEN 2 * MaxDepth + 1 - Len(stack)
    ELSE Len(stack)

\* steps the current iteration still needs in the worst case
PosRank ==
    CASE pc = "while" -> 8 + 2 * MaxDepth
      [] pc = "I" -> 7 + 2 * MaxDepth
      [] pc = "draw" -> 6 + DrawRank
      [] pc = "returned" -> 5
      [] pc = "concat" -> 4
      [] pc \in {"E", "E_"} -> 3
      [] pc \in {"M", "M_"} -> 2
      [] pc = "except" -> 1
      [] OTHER -> 0

\* steps run_EM still needs before it returns if no further failure occurs
Rank ==
    IF pc = "done" THEN 0
    ELSE IF pc = "initialize" THEN (50 + 1) * (9 + 2 * MaxDepth)
    ELSE (50 - iter) * (9 + 2 * MaxDepth) + PosRank

\* the enabling condition of Next: every statement of run_EM can execute, and
\* inside draw the top activation can run its body or return
Runnable ==
    \/ pc \in {"initialize", "while", "E", "M", "I", "returned", "concat",
               "E_", "M_", "except", "incr"}
    \/ /\ pc = "draw"
       /\ stack # <<>>
       /\ \/ Top.status = "return"
          \/ /\ Top.status = "entry"
             /\ \E normal \in [1..Top.size -> SampleValues] :
                  \/ ~hasSel
                  \/ SizeIn(Mask(normal, invert)) = Top.size
                  \/ Len(stack) < MaxDepth

C10_DatasetFrame ==
    /\ [][data' = data]_vars
    /\ [](Len(data) = NRows)
    /\ []((pc = "M" \/ (StepCompleted /\ Last(calls) = "M")) => fed = data)
    /\ []((pc = "M_" \/ (StepCompleted /\ Last(calls) = "M_impute")) =>
            /\ fed = data \o data_out
            /\ Len(data_out) = impute
            /\ fresh
            /\ Len(fed) = NRows + impute)
    /\ [](pc = "except" => (fed \in {data, data \o data_out} /\ Len(data) = NRows))

\* a failure inside an imputation step of a run that had already restarted
C10_Witness ==
    /\ pc = "except"
    /\ "concatenate" \in Range(calls)
    /\ restarts > 0
    /\ Len(fed) = NRows + impute
    /\ impute > 0

----------------------------------------------------------------------------
(* Properties of draw *)

\* the samples a call with this callback setting may return
Wanted(x) == IF invert THEN ~Selected(x) ELSE Selected(x)
Returning == {d \in DOMAIN stack : stack[d].status = "return"}

\* C4: draw returns exactly size samples, at every level of the recursion,
\* and with a selection callback every returned sample satisfies it (or, with
\* invert_callback, fails it); so I returns impute samples the callback rejects.
C4_DrawExact ==
    /\ \A d \in Returning :
         /\ Len(stack[d].samples) = stack[d].size
         /\ hasSel => \A k \in DOMAIN stack[d].samples : Wanted(stack[d].samples[k])
    /\ pc = "returned" =>
         /\ Len(ret) = entry.size
         /\ hasSel => \A k \in DOMAIN ret :
                        IF invert THEN ~Selected(ret[k]) ELSE Selected(ret[k])

\* the second-level call, itself topped up by a third, is about to return
\* its samples to a first-level call made as I makes it
C4_Witness ==
    /\ pc = "draw"
    /\ hasSel
    /\ invert
    /\ Len(stack) = 2
    /\ Top.status = "return"
    /\ \E k \in DOMAIN Top.sel_ : ~Top.sel_[k]
    /\ \E k \in DOMAIN Top.sel_ : Top.sel_[k]
    /\ stack[1].size = MaxSize

\* C7 (as claimed): draw leaves the caller's amp, mean and covar as they were.
C7_DrawLeavesArguments ==
    pc = "returned" =>
        (amp = entry.amp /\ mean = entry.mean /\ covar = entry.covar)

\* C9 (as claimed): every recursive top-up call requests strictly fewer
\* samples than the call that made it.
C9_StrictlyFewer ==
    \A d \in DOMAIN stack : d > 1 => stack[d].size < stack[d - 1].size

\* C9 (amended): a top-up call requests the caller's size less the number of
\* samples the caller's batch had accepted: never more than the caller, at
\* least one, and strictly fewer exactly when the batch had an accepted sample.
C9_NeverMore ==
    \A d \in DOMAIN stack : d > 1 =>
        LET caller == stack[d - 1]
            accepted == Cardinality({k \in DOMAIN caller.samples :
                                        Wanted(caller.samples[k])})
        IN  /\ caller.status = "call"
            /\ stack[d].size = caller.size - accepted
            /\ stack[d].size <= caller.size
            /\ stack[d].size >= 1
            /\ (stack[d].size < caller.size) <=> (accepted > 0)

\* a batch with no accepted sample was followed by one with some accepted
C9_Witness ==
    /\ Len(stack) = 3
    /\ stack[2].size = stack[1].size
    /\ stack[3].size < stack[2].size
    /\ stack[1].size = MaxSize

----------------------------------------------------------------------------
(* Properties of E and M *)

AfterE == pc = "M"
AfterM == pc = "incr" /\ calls # <<>> /\ Last(calls) \in {"M", "M_impute"}
RealRows == Len(fed) - impute

\* total responsibility of component j over rows lo..hi of the fed rows
Mass(j, lo, hi) == SumSeq([i \in 1..(hi - lo + 1) |-> qij[lo + i - 1][j]])

\* the covariance M is to leave for component j when the deviations of the
\* real rows are taken about centre
CovarianceAbout(j, centre) ==
    LET dev == SumSeq([i \in 1..RealRows |->
                   RMul(qij[i][j], Sq(RSub(FromInt(fed[i]), centre)))])
    IN  IF impute = 0
        THEN RDiv(dev, Mass(j, 1, Len(fed)))
        ELSE RAdd(RDiv(dev, Mass(j, 1, RealRows)),
                  RMul(RDiv(Mass(j, RealRows + 1, Len(fed)), Mass(j, 1, Len(fed))),
                       entry.covar[j]))

\* the mean over all rows, real and imputed
MeanOfAll(j) ==
    RDiv(SumSeq([i \in DOMAIN fed |-> RMul(FromInt(fed[i]), qij[i][j])]),
         Mass(j, 1, Len(fed)))

\* C5 (as claimed): for every row i the K values E returns sum to 1 after
\* exponentiating.
C5_RowsSumToOne ==
    AfterE => \A i \in DOMAIN qij : SumSeq(qij[i]) = One

\* C6 (as claimed): after M, fed with the qij E returned, the mixture weights
\* sum to 1.
C6_AmpSumsToOne ==
    AfterM => SumSeq(amp) = One

\* C8 (as claimed): the deviations in covar_k are taken from the mean_k newly
\* computed in this call.
C8_CovarAboutNewMean ==
    AfterM => \A j \in Comps : covar[j] = CovarianceAbout(j, mean[j])

\* C8 (amended): within one call of M the covariance of every component is
\* updated before its mean: the deviations are taken from the mean_k the call
\* was entered with, and mean_k is then computed from all rows.
C8_CovarAboutEntryMean ==
    AfterM => \A j \in Comps :
        /\ covar[j] = CovarianceAbout(j, entry.mean[j])
        /\ mean[j] = MeanOfAll(j)

\* M with impute moved a mean, and the two centres give different covariances
C8_Witness ==
    /\ AfterM
    /\ impute > 0
    /\ \E j \in Comps :
         /\ mean[j] # entry.mean[j]
         /\ CovarianceAbout(j, mean[j]) # CovarianceAbout(j, entry.mean[j])

====
